---------------------------- MODULE Spec2Model ----------------------------
(***************************************************************************)
(* Model of streamlit_visualization.py: one top-to-bottom execution of the *)
(* script per user interaction.  The script reads quantum_results.json,    *)
(* resolves three fields with defaults, and emits output blocks through    *)
(* the UI framework (st.error, st.write, st.json, charts, st.progress).    *)
(*                                                                         *)
(* Numbers.  Python floats are modelled as exact rationals <<n, d>> in     *)
(* lowest terms with d > 0, in units of 10^-6 Hartree (so round(x, 6) and  *)
(* the .6f format round to an integer number of units).  Fractions of the  *)
(* progress bar are rationals too.                                         *)
(***************************************************************************)
EXTENDS Integers, Sequences, FiniteSets, TLC

VARIABLES
    file,                 \* quantum_results.json as the run finds it
    toggles,              \* the three sidebar checkboxes (widget state)
    pc,                   \* position of the script
    results,              \* line 24
    ground_state_energy,  \* line 27
    iterations,           \* line 28
    energy_convergence,   \* line 29
    running_avg,          \* line 94
    i,                    \* loop variable of line 116 (number of updates done)
    out,                  \* the output blocks emitted by this run, in order
    exc,                  \* the uncaught exception that ended the run, or "none"
    prev                  \* the previous run of the session: its toggles and output

vars == <<file, toggles, pc, results, ground_state_energy, iterations,
          energy_convergence, running_avg, i, out, exc, prev>>

----------------------------------------------------------------------------
(* Bounds of the model and constants of the program *)

MaxIter == 3
MaxLen == 2

\* np.linspace(0.6, -0.886786, iterations), in units of 10^-6
StartE == 600000
StopE == -886786
DefaultIterations == 100
DefaultEnergy == 0
PlotlyBins == 30
MplBins == 20

----------------------------------------------------------------------------
(* Exact rationals *)

Abs(n) == IF n < 0 THEN -n ELSE n

RECURSIVE GCD(_, _)
GCD(a, b) == IF b = 0 THEN a ELSE GCD(b, a % b)

Norm(n, d) == LET g == GCD(Abs(n), d) IN <<n \div g, d \div g>>

LCM(a, b) == (a \div GCD(a, b)) * b

RAdd(a, b) == LET l == LCM(a[2], b[2])
              IN Norm(a[1] * (l \div a[2]) + b[1] * (l \div b[2]), l)

RSub(a, b) == RAdd(a, <<-b[1], b[2]>>)

RMulInt(a, k) == LET g == GCD(Abs(k), a[2])
                 IN Norm(a[1] * (k \div g), a[2] \div g)

RDivInt(a, k) == LET g == GCD(Abs(a[1]), k)
                 IN IF a[1] = 0 THEN <<0, 1>>
                    ELSE <<a[1] \div g, a[2] * (k \div g)>>

RInt(n) == <<n, 1>>

\* round(x, 6) / the .6f format: the nearest integer number of units, ties to even
Round6(a) ==
    LET q == a[1] \div a[2]
        r == a[1] - q * a[2]
    IN IF 2 * r < a[2] THEN q
       ELSE IF 2 * r > a[2] THEN q + 1
       ELSE IF q % 2 = 0 THEN q ELSE q + 1

----------------------------------------------------------------------------
(* The input file *)

EnergyVals == { <<600000, 1>>, <<1234567, 10>> }
GseVals == { <<-4433932, 5>>, <<-1, 1>> }

\* an optional value: <<>> when the key is absent, <<v>> when it is present
Opt(S) == { <<>> } \cup { <<v>> : v \in S }

SeqsUpTo(S, n) == UNION { [1..m -> S] : m \in 0..n }

MkDoc(g, it, ec) ==
    LET dom == (IF g = <<>> THEN {} ELSE {"ground_state_energy"})
               \cup (IF it = <<>> THEN {} ELSE {"iterations"})
               \cup (IF ec = <<>> THEN {} ELSE {"energy_convergence"})
    IN [k \in dom |-> CASE k = "ground_state_energy" -> g[1]
                        [] k = "iterations" -> it[1]
                        [] OTHER -> ec[1]]

Docs == { MkDoc(g, it, ec) : g \in Opt(GseVals),
                             it \in Opt(-1..MaxIter),
                             ec \in Opt(SeqsUpTo(EnergyVals, MaxLen)) }

Files == { [kind |-> "missing"], [kind |-> "malformed"] }
         \cup { [kind |-> "json", doc |-> d] : d \in Docs }

None == [kind |-> "None"]

----------------------------------------------------------------------------
(* Init: a new session.  The checkboxes have their default value True.     *)

NoPrev == [valid |-> FALSE]

Init ==
    /\ file \in Files
    /\ toggles = [show_histogram |-> TRUE, show_running_avg |-> TRUE,
                  use_plotly |-> TRUE]
    /\ pc = "load"
    /\ results = None
    /\ ground_state_energy = <<0, 1>>
    /\ iterations = 0
    /\ energy_convergence = <<>>
    /\ running_avg = <<>>
    /\ i = 0
    /\ out = <<>>
    /\ exc = "none"
    /\ prev = NoPrev

----------------------------------------------------------------------------
(* Pure functions of the script *)

\* linspace as it would be with endpoint=False: the step is (stop - start) / num
\* and stop is not a sample
linspace_no_endpoint(start, stop, num) ==
    [k \in 1..num |-> RAdd(RMulInt(Norm(stop - start, num), k - 1), RInt(start))]

\* np.linspace(start, stop, num), endpoint=True: num samples start + k*step with
\* step = (stop - start) / (num - 1); the last sample is set to stop when
\* num > 1; num = 1 gives the single sample start; num < 0 raises ValueError.
linspace(start, stop, num) ==
    LET div == num - 1
        delta == stop - start
        y == [k \in 1..num |->
                IF div > 0
                THEN RAdd(RMulInt(Norm(delta, div), k - 1), RInt(start))
                ELSE RInt((k - 1) * delta + start)]
    IN [k \in 1..num |-> IF num > 1 /\ k = num THEN RInt(stop) ELSE y[k]]

linspace_raises(num) == num < 0

\* results.get(key, default)
Get(d, key, default) == IF key \in DOMAIN d THEN d[key] ELSE default

\* `if results:` - None and the empty dict are falsy
Truthy(r) == r.kind = "dict" /\ DOMAIN r.doc # {}

\* load_results with the two messages under the wrong except clauses
load_results_swapped(f) ==
    CASE f.kind = "missing" ->
            [ret |-> None,
             errs |-> << [block |-> "error", kind |-> "JSONDecodeError"] >>]
      [] f.kind = "malformed" ->
            [ret |-> None,
             errs |-> << [block |-> "error", kind |-> "FileNotFoundError"] >>]
      [] OTHER ->
            [ret |-> [kind |-> "dict", doc |-> f.doc], errs |-> <<>>]

\* load_results(): what it returns and the errors it reports
load_results(f) ==
    CASE f.kind = "missing" ->
            [ret |-> None,
             errs |-> << [block |-> "error", kind |-> "FileNotFoundError"] >>]
      [] f.kind = "malformed" ->
            [ret |-> None,
             errs |-> << [block |-> "error", kind |-> "JSONDecodeError"] >>]
      [] OTHER ->
            [ret |-> [kind |-> "dict", doc |-> f.doc], errs |-> <<>>]

\* np.cumsum: the running total, accumulated from left to right.  accumulate
\* continues a running total `carry` over s; it splits s in two only to keep
\* the evaluation shallow, every sum it forms is a prefix sum.
RECURSIVE accumulate(_, _)
accumulate(carry, s) ==
    IF Len(s) = 0 THEN <<>>
    ELSE IF Len(s) = 1 THEN << RAdd(carry, s[1]) >>
    ELSE LET m == Len(s) \div 2
             left == accumulate(carry, SubSeq(s, 1, m))
         IN left \o accumulate(left[m], SubSeq(s, m + 1, Len(s)))

cumsum(s) == accumulate(RInt(0), s)

\* the running average with the divisor one too large
RunningAverage_off_by_one(e) ==
    LET c == cumsum(e) IN [k \in 1..Len(e) |-> RDivInt(c[k], k + 1)]

\* np.cumsum(e) / np.arange(1, len(e) + 1)
RunningAverage(e) ==
    LET c == cumsum(e) IN [k \in 1..Len(e) |-> RDivInt(c[k], k)]

\* np.arange(n)
arange(n) == [k \in 1..n |-> k - 1]

\* the histogram section guarded by the other checkbox
HistogramShown_wrong_toggle(t) == t.show_running_avg

HistogramShown(t) == t.show_histogram

RunningAvgShown(t) == t.show_running_avg

\* the fraction computed from i instead of i + 1
ProgressFraction_zero_based(idx, n) == Norm(idx, n)

\* the fraction passed to progress_bar.progress in iteration idx of the loop
ProgressFraction(idx, n) == Norm(idx + 1, n)

\* a loop that stops one iteration early
LoopExhausted_early(idx, n) == idx >= n - 1

\* `for i in range(iterations)` is exhausted
LoopExhausted(idx, n) == idx >= n

\* the final summary showing the ground_state_energy field
FinalEnergy_ground_state(e, g) == Round6(g)

\* the value shown in the final summary
FinalEnergy(e, g) == Round6(e[Len(e)])

----------------------------------------------------------------------------
(* The script, one action per statement group *)

Emit(b) == out' = Append(out, b)

\* lines 12-24
LoadResults ==
    /\ pc = "load"
    /\ LET r == load_results(file)
       IN /\ results' = r.ret
          /\ out' = out \o r.errs
    /\ pc' = "if_results"
    /\ UNCHANGED <<file, toggles, ground_state_energy, iterations,
                   energy_convergence, running_avg, i, exc, prev>>

\* line 26
IfResults ==
    /\ pc = "if_results"
    /\ pc' = IF Truthy(results) THEN "extract" ELSE "done"
    /\ UNCHANGED <<file, toggles, results, ground_state_energy, iterations,
                   energy_convergence, running_avg, i, out, exc, prev>>

\* lines 27-29.  The default of line 29 is an argument of .get: it is
\* evaluated before the lookup, whether or not the key is present.
Extract ==
    /\ pc = "extract"
    /\ ground_state_energy' =
           Get(results.doc, "ground_state_energy", RInt(DefaultEnergy))
    /\ iterations' = Get(results.doc, "iterations", DefaultIterations)
    /\ \/ /\ linspace_raises(iterations')
          /\ exc' = "ValueError"
          /\ pc' = "crashed"
          /\ UNCHANGED energy_convergence
       \/ /\ ~linspace_raises(iterations')
          /\ energy_convergence' =
                 Get(results.doc, "energy_convergence",
                     linspace(StartE, StopE, iterations'))
          /\ pc' = "title"
          /\ UNCHANGED exc
    /\ UNCHANGED <<file, toggles, results, running_avg, i, out, prev>>

\* lines 32-34
Title ==
    /\ pc = "title"
    /\ Emit([block |-> "title"])
    /\ pc' = "raw_data"
    /\ UNCHANGED <<file, toggles, results, ground_state_energy, iterations,
                   energy_convergence, running_avg, i, exc, prev>>

\* lines 37-38
RawData ==
    /\ pc = "raw_data"
    /\ Emit([block |-> "raw_data", data |-> results.doc])
    /\ pc' = "sidebar"
    /\ UNCHANGED <<file, toggles, results, ground_state_energy, iterations,
                   energy_convergence, running_avg, i, exc, prev>>

\* lines 41-44
Sidebar ==
    /\ pc = "sidebar"
    /\ Emit([block |-> "toggles", state |-> toggles])
    /\ pc' = "summary"
    /\ UNCHANGED <<file, toggles, results, ground_state_energy, iterations,
                   energy_convergence, running_avg, i, exc, prev>>

\* lines 46-48
Summary ==
    /\ pc = "summary"
    /\ Emit([block |-> "summary", energy |-> Round6(ground_state_energy),
             iterations |-> iterations])
    /\ pc' = "convergence"
    /\ UNCHANGED <<file, toggles, results, ground_state_energy, iterations,
                   energy_convergence, running_avg, i, exc, prev>>

\* lines 51-69
ConvergenceChart(t, e) ==
    IF t.use_plotly
    THEN [block |-> "convergence", backend |-> "plotly",
          x |-> arange(Len(e)), y |-> e,
          title |-> "VQE Energy Convergence",
          xlabel |-> "Iterations", ylabel |-> "Energy (Hartree)",
          legend |-> "", grid |-> FALSE]
    ELSE [block |-> "convergence", backend |-> "matplotlib",
          x |-> arange(Len(e)), y |-> e,
          title |-> "VQE Energy Convergence",
          xlabel |-> "Iterations", ylabel |-> "Energy (Hartree)",
          legend |-> "Energy Convergence", grid |-> TRUE]

Convergence ==
    /\ pc = "convergence"
    /\ Emit(ConvergenceChart(toggles, energy_convergence))
    /\ pc' = "histogram"
    /\ UNCHANGED <<file, toggles, results, ground_state_energy, iterations,
                   energy_convergence, running_avg, i, exc, prev>>

\* lines 72-88
HistogramChart(t, e) ==
    IF t.use_plotly
    THEN [block |-> "histogram", backend |-> "plotly", data |-> e,
          bins |-> PlotlyBins, title |-> "Energy Distribution",
          xlabel |-> "Energy (Hartree)", ylabel |-> "Frequency"]
    ELSE [block |-> "histogram", backend |-> "matplotlib", data |-> e,
          bins |-> MplBins, title |-> "Energy Distribution",
          xlabel |-> "Energy (Hartree)", ylabel |-> "Frequency"]

Histogram ==
    /\ pc = "histogram"
    /\ \/ /\ HistogramShown(toggles)
          /\ Emit(HistogramChart(toggles, energy_convergence))
       \/ /\ ~HistogramShown(toggles)
          /\ UNCHANGED out
    /\ pc' = "running_avg"
    /\ UNCHANGED <<file, toggles, results, ground_state_energy, iterations,
                   energy_convergence, running_avg, i, exc, prev>>

\* lines 91-109
RunningAvgChart(t, ra) ==
    IF t.use_plotly
    THEN [block |-> "running_average", backend |-> "plotly",
          x |-> arange(Len(ra)), y |-> ra,
          title |-> "Running Average of Energy",
          xlabel |-> "Iterations", ylabel |-> "Energy (Hartree)",
          legend |-> ""]
    ELSE [block |-> "running_average", backend |-> "matplotlib",
          x |-> arange(Len(ra)), y |-> ra,
          title |-> "Running Average of Energy",
          xlabel |-> "Iterations", ylabel |-> "Energy (Hartree)",
          legend |-> "Running Average"]

RunningAvg ==
    /\ pc = "running_avg"
    /\ \/ /\ RunningAvgShown(toggles)
          /\ running_avg' = RunningAverage(energy_convergence)
          /\ Emit(RunningAvgChart(toggles, running_avg'))
       \/ /\ ~RunningAvgShown(toggles)
          /\ UNCHANGED <<running_avg, out>>
    /\ pc' = "progress_start"
    /\ UNCHANGED <<file, toggles, results, ground_state_energy, iterations,
                   energy_convergence, i, exc, prev>>

\* lines 112-114
ProgressStart ==
    /\ pc = "progress_start"
    /\ Emit([block |-> "progress", fraction |-> RInt(0)])
    /\ i' = 0
    /\ pc' = "progress_loop"
    /\ UNCHANGED <<file, toggles, results, ground_state_energy, iterations,
                   energy_convergence, running_avg, exc, prev>>

\* lines 116-118, one iteration
ProgressStep ==
    /\ pc = "progress_loop"
    /\ ~LoopExhausted(i, iterations)
    /\ Emit([block |-> "progress_update",
             fraction |-> ProgressFraction(i, iterations)])
    /\ i' = i + 1
    /\ UNCHANGED <<file, toggles, pc, results, ground_state_energy, iterations,
                   energy_convergence, running_avg, exc, prev>>

\* lines 121-122, once the loop is exhausted; energy_convergence[-1] raises
\* IndexError on an empty array
FinalSummary ==
    /\ pc = "progress_loop"
    /\ LoopExhausted(i, iterations)
    /\ \/ /\ Len(energy_convergence) = 0
          /\ exc' = "IndexError"
          /\ pc' = "crashed"
          /\ UNCHANGED out
       \/ /\ Len(energy_convergence) > 0
          /\ Emit([block |-> "final",
                   energy |-> FinalEnergy(energy_convergence,
                                          ground_state_energy),
                   iterations |-> iterations])
          /\ pc' = "conclusion"
          /\ UNCHANGED exc
    /\ UNCHANGED <<file, toggles, results, ground_state_energy, iterations,
                   energy_convergence, running_avg, i, prev>>

\* lines 125-131
Conclusion ==
    /\ pc = "conclusion"
    /\ Emit([block |-> "conclusion"])
    /\ pc' = "done"
    /\ UNCHANGED <<file, toggles, results, ground_state_energy, iterations,
                   energy_convergence, running_avg, i, exc, prev>>

\* The viewer changes one checkbox after a run has ended: the framework
\* keeps the widget state and runs the script again from the top.
Flip(t, name) == [t EXCEPT ![name] = ~t[name]]

Rerun ==
    /\ pc \in {"done", "crashed"}
    /\ \E name \in {"show_histogram", "show_running_avg", "use_plotly"} :
          toggles' = Flip(toggles, name)
    /\ prev' = [valid |-> TRUE, toggles |-> toggles, out |-> out, pc |-> pc]
    /\ pc' = "load"
    /\ results' = None
    /\ ground_state_energy' = <<0, 1>>
    /\ iterations' = 0
    /\ energy_convergence' = <<>>
    /\ running_avg' = <<>>
    /\ i' = 0
    /\ out' = <<>>
    /\ exc' = "none"
    /\ UNCHANGED file

Run ==
    \/ LoadResults
    \/ IfResults
    \/ Extract
    \/ Title
    \/ RawData
    \/ Sidebar
    \/ Summary
    \/ Convergence
    \/ Histogram
    \/ RunningAvg
    \/ ProgressStart
    \/ ProgressStep
    \/ FinalSummary
    \/ Conclusion

Next == Run \/ Rerun

Spec == Init /\ [][Next]_vars

----------------------------------------------------------------------------
(* Vocabulary of the properties *)

Count(s, kind) == Cardinality({ k \in 1..Len(s) : s[k].block = kind })

Has(s, kind) == \E k \in 1..Len(s) : s[k].block = kind

TheBlock(s, kind) == s[CHOOSE k \in 1..Len(s) : s[k].block = kind]

Without(s, kinds) == LET keep(b) == b.block \notin kinds IN SelectSeq(s, keep)

ChartKinds == {"convergence", "histogram", "running_average"}

Charts(s) == LET isChart(b) == b.block \in ChartKinds IN SelectSeq(s, isChart)

ProgressBlocks(s) ==
    LET isProgress(b) == b.block \in {"progress", "progress_update"}
    IN SelectSeq(s, isProgress)

RunEnded == pc \in {"done", "crashed"}

LoadFailed == file.kind \in {"missing", "malformed"}

\* the run has entered the body of `if results:`
InBody == Truthy(results) /\ pc \notin {"load", "if_results"}

\* lines 27-29 have been executed, successfully or not
Extracted == InBody /\ pc # "extract"

\* the run has gone through the three chart sections
ChartsDone ==
    /\ InBody
    /\ \/ pc \in {"progress_start", "progress_loop", "conclusion", "done"}
       \/ pc = "crashed" /\ exc = "IndexError"

\* the run has left the progress loop
LoopDone ==
    /\ InBody
    /\ \/ pc \in {"conclusion", "done"}
       \/ pc = "crashed" /\ exc = "IndexError"

DiffersOnlyIn(t1, t2, name) ==
    /\ t1[name] # t2[name]
    /\ \A n \in DOMAIN t1 : n # name => t1[n] = t2[n]

----------------------------------------------------------------------------
(* C1 *)

\* C1: when quantum_results.json is missing or is not valid JSON, load_results
\* reports exactly one error of the matching kind and returns None, and the
\* output of the run is that one error and nothing else, up to its end.
C1_LoadFailureTerminal ==
    (LoadFailed /\ pc # "load") =>
        /\ results = None
        /\ pc \in {"if_results", "done"}
        /\ out = << [block |-> "error",
                     kind |-> IF file.kind = "missing"
                              THEN "FileNotFoundError"
                              ELSE "JSONDecodeError"] >>

C1_Witness ==
    /\ file.kind = "malformed"
    /\ pc = "done"
    /\ Len(out) = 1
    /\ out[1].kind = "JSONDecodeError"

----------------------------------------------------------------------------
(* C2 *)

\* C2: once lines 27-29 have run on a parsed object, ground_state_energy is
\* the stored value or 0.0, iterations is the stored value or 100, and, when
\* the energy_convergence key is present, the resolution succeeds and yields
\* the stored array whatever the value of iterations is; when it is absent
\* the sequence has the length of the resolved iterations.
C2_FieldResolution ==
    Extracted =>
        LET d == file.doc IN
        /\ ground_state_energy =
               (IF "ground_state_energy" \in DOMAIN d
                THEN d["ground_state_energy"] ELSE <<0, 1>>)
        /\ iterations =
               (IF "iterations" \in DOMAIN d THEN d["iterations"] ELSE 100)
        /\ "energy_convergence" \in DOMAIN d =>
               /\ exc # "ValueError"
               /\ energy_convergence = d["energy_convergence"]
        /\ ("energy_convergence" \notin DOMAIN d /\ exc # "ValueError") =>
               Len(energy_convergence) = iterations

----------------------------------------------------------------------------
(* C3 *)

Synthesized ==
    /\ Extracted
    /\ exc # "ValueError"
    /\ "energy_convergence" \notin DOMAIN file.doc

ConstantStep(e) ==
    \A k \in 1..(Len(e) - 2) : RSub(e[k + 1], e[k]) = RSub(e[k + 2], e[k + 1])

\* C3 as stated: for every K, K = 1 included, the synthesized sequence has K
\* elements, starts at 0.6, ends at -0.886786 and has a constant step.
C3_Original ==
    (Synthesized /\ iterations >= 1) =>
        /\ Len(energy_convergence) = iterations
        /\ energy_convergence[1] = <<600000, 1>>
        /\ energy_convergence[iterations] = <<-886786, 1>>
        /\ ConstantStep(energy_convergence)

\* C3 amended: the synthesized sequence has K elements; for K >= 2 it starts
\* at 0.6, ends at -0.886786 and has a constant step; for K = 1 it is the
\* single element 0.6; for K = 0 it is empty.
C3_Amended ==
    Synthesized =>
        /\ Len(energy_convergence) = iterations
        /\ iterations >= 2 =>
              /\ energy_convergence[1] = <<600000, 1>>
              /\ energy_convergence[iterations] = <<-886786, 1>>
              /\ ConstantStep(energy_convergence)
              /\ RSub(energy_convergence[2], energy_convergence[1])[1] < 0
        /\ iterations = 1 => energy_convergence = << <<600000, 1>> >>

C3_Witness ==
    /\ Synthesized
    /\ iterations = 3
    /\ Len(energy_convergence) = 3
    /\ energy_convergence[2] = <<-143393, 1>>

----------------------------------------------------------------------------
(* C4 *)

\* C4: right after line 94, running_avg has the length N of the energy
\* sequence and element i times (i+1) is the sum of the first i+1 energies
\* (stated by induction on i: the first product is the first energy, each
\* later product is the previous product plus the next energy); the energy
\* sequence is still the one the convergence chart was given.
C4_RunningAverage ==
    (pc = "progress_start" /\ RunningAvgShown(toggles)) =>
        /\ Len(running_avg) = Len(energy_convergence)
        /\ \A k \in 1..Len(running_avg) :
              RMulInt(running_avg[k], k) =
                  (IF k = 1 THEN energy_convergence[1]
                   ELSE RAdd(RMulInt(running_avg[k - 1], k - 1),
                             energy_convergence[k]))
        /\ TheBlock(out, "convergence").y = energy_convergence
        /\ TheBlock(out, "running_average").y = running_avg

C4_Witness ==
    /\ pc = "progress_start"
    /\ RunningAvgShown(toggles)
    /\ energy_convergence = << <<600000, 1>>, <<1234567, 10>> >>
    /\ running_avg = << <<600000, 1>>, <<7234567, 20>> >>

----------------------------------------------------------------------------
(* C5 *)

\* C5: in a run that renders, whatever the toggles, the convergence chart is
\* emitted exactly once, the histogram once if show_histogram and never
\* otherwise, the running-average chart once if show_running_avg and never
\* otherwise; and two consecutive runs on the same file that differ in one
\* optional-chart toggle have the same output apart from that chart (and the
\* checkbox itself).
C5_ToggleIndependence ==
    /\ ChartsDone =>
          /\ Count(out, "convergence") = 1
          /\ Count(out, "histogram") = (IF toggles.show_histogram THEN 1 ELSE 0)
          /\ Count(out, "running_average") =
                 (IF toggles.show_running_avg THEN 1 ELSE 0)
    /\ (RunEnded /\ prev.valid) =>
          /\ DiffersOnlyIn(toggles, prev.toggles, "show_histogram") =>
                Without(out, {"histogram", "toggles"}) =
                    Without(prev.out, {"histogram", "toggles"})
          /\ DiffersOnlyIn(toggles, prev.toggles, "show_running_avg") =>
                Without(out, {"running_average", "toggles"}) =
                    Without(prev.out, {"running_average", "toggles"})

C5_Witness ==
    /\ pc = "done"
    /\ prev.valid
    /\ DiffersOnlyIn(toggles, prev.toggles, "show_histogram")
    /\ ~toggles.show_histogram
    /\ ~toggles.use_plotly
    /\ Has(prev.out, "histogram")
    /\ ~Has(out, "histogram")
    /\ Has(out, "running_average")
    /\ Has(out, "final")

----------------------------------------------------------------------------
(* C6 *)

\* C6: the final summary, when it is displayed, shows the last element of
\* the resolved energy sequence rounded to 6 decimals - the last stored
\* element, or the end of the ramp (-0.886786, or 0.6 for a ramp of one
\* element) - and the resolved iterations; not ground_state_energy.
C6_FinalSummary ==
    Has(out, "final") =>
        LET d == file.doc
            b == TheBlock(out, "final")
            k == IF "iterations" \in DOMAIN d THEN d["iterations"] ELSE 100
        IN /\ b.iterations = k
           /\ "energy_convergence" \in DOMAIN d =>
                 LET e == d["energy_convergence"]
                     last == e[Len(e)]
                 IN /\ b.energy * last[2] - last[1] \in
                           (-(last[2] \div 2))..(last[2] \div 2)
           /\ "energy_convergence" \notin DOMAIN d =>
                 b.energy = (IF k = 1 THEN 600000 ELSE -886786)

C6_Witness ==
    /\ pc = "done"
    /\ Has(out, "final")
    /\ "energy_convergence" \in DOMAIN file.doc
    /\ TheBlock(out, "final").energy = 123457
    /\ TheBlock(out, "summary").energy = -886786
    /\ Len(energy_convergence) # iterations

----------------------------------------------------------------------------
(* C7 *)

SameChart(a, b) ==
    /\ a.block = b.block
    /\ a.title = b.title
    /\ a.xlabel = b.xlabel
    /\ a.ylabel = b.ylabel
    /\ IF a.block = "histogram"
       THEN a.data = b.data /\ a.bins = b.bins
       ELSE a.x = b.x /\ a.y = b.y

\* C7: two consecutive runs on the same file that differ only in the
\* interactive-backend toggle show the same charts in the same order, each
\* with the same data, title and axis labels and the histogram binned the
\* same way, and the same other blocks.
C7_BackendEquivalence ==
    (RunEnded /\ prev.valid
       /\ DiffersOnlyIn(toggles, prev.toggles, "use_plotly")) =>
        /\ Len(Charts(out)) = Len(Charts(prev.out))
        /\ \A k \in 1..Len(Charts(out)) :
              SameChart(Charts(out)[k], Charts(prev.out)[k])
        /\ Without(out, ChartKinds \cup {"toggles"}) =
               Without(prev.out, ChartKinds \cup {"toggles"})

----------------------------------------------------------------------------
(* C8 *)

FractionIs(f, j, k) == f[1] * k = j * f[2]

FractionLess(f, g) == f[1] * g[2] < g[1] * f[2]

InLoop == InBody /\ pc = "progress_loop"

C8_ProgressSafety ==
    (iterations >= 1 /\ (InLoop \/ LoopDone)) =>
        LET P == ProgressBlocks(out) IN
        /\ i \in 0..iterations
        /\ Len(P) = i + 1
        /\ P[1] = [block |-> "progress", fraction |-> <<0, 1>>]
        /\ \A j \in 1..i :
              /\ P[j + 1].block = "progress_update"
              /\ FractionIs(P[j + 1].fraction, j, iterations)
              /\ FractionLess(P[j].fraction, P[j + 1].fraction)
              /\ P[j + 1].fraction[1] \in 0..P[j + 1].fraction[2]
        /\ InLoop => ENABLED Run
        /\ LoopDone =>
              /\ i = iterations
              /\ P[Len(P)].fraction = <<1, 1>>

\* a step taken in the loop is an update that moves the counter one closer
\* to K, or, at K, the exit from the loop
C8_LoopStep ==
    (InLoop /\ iterations >= 1) =>
        \/ pc' = "progress_loop" /\ i' = i + 1 /\ i' <= iterations
        \/ i = iterations /\ pc' \in {"conclusion", "crashed"}

\* C8: with resolved iterations K >= 1 the indicator starts at 0, the j-th
\* update sets the fraction j/K, the fractions are strictly increasing and
\* within [0, 1], after the loop there have been exactly K updates (whatever
\* the length of energy_convergence) and the last one set 1; the loop
\* terminates: every step in it is an update that brings the counter closer
\* to K or the exit at K, and the script is never stuck in it.
C8_ProgressIndicator ==
    /\ []C8_ProgressSafety
    /\ [][C8_LoopStep]_vars

C8_Witness ==
    /\ pc = "conclusion"
    /\ iterations = 3
    /\ Len(energy_convergence) = 1
    /\ i = 3
    /\ Count(out, "progress_update") = 3

----------------------------------------------------------------------------
(* C9 *)

RankOf ==
    [title |-> 1, raw_data |-> 2, toggles |-> 3, summary |-> 4,
     convergence |-> 5, histogram |-> 6, running_average |-> 7,
     progress |-> 8, progress_update |-> 9, final |-> 10, conclusion |-> 11]

Rank(b) == IF b.block \in DOMAIN RankOf THEN RankOf[b.block] ELSE 0

\* the blocks every rendering run emits; the two optional charts are not
Mandatory == {1, 2, 3, 4, 5, 8, 10, 11}

\* the pairs of ranks of two blocks emitted one after the other: the second
\* is later in the order (or both are progress updates) and no mandatory
\* block lies between them
Neighbours ==
    { p \in (1..11) \X (1..11) :
        /\ p[1] < p[2] \/ (p[1] = 9 /\ p[2] = 9)
        /\ \A m \in Mandatory : ~(p[1] < m /\ m < p[2]) }

\* C9: in a run that loads a document the blocks come in the fixed order
\* title, raw data, toggles, summary, convergence chart, histogram,
\* running-average chart, progress indicator and its updates, final summary,
\* closing commentary: the output starts with the title, each block is
\* followed by a later one of the order (an update may follow an update), so
\* none is emitted twice or before a predecessor, and no mandatory block is
\* skipped between two neighbours; the optional charts only when enabled;
\* the final summary only after all the progress updates; the two-line
\* summary shows ground_state_energy to 6 decimals and iterations.
C9_RenderOrder ==
    ~LoadFailed =>
        LET r == [k \in 1..Len(out) |-> Rank(out[k])] IN
        /\ Len(out) >= 1 => r[1] = 1
        /\ \A k \in 1..(Len(out) - 1) : <<r[k], r[k + 1]>> \in Neighbours
        /\ Has(out, "histogram") => toggles.show_histogram
        /\ Has(out, "running_average") => toggles.show_running_avg
        /\ Has(out, "final") => Count(out, "progress_update") = iterations
        /\ Has(out, "summary") =>
              LET b == TheBlock(out, "summary")
                  g == Get(file.doc, "ground_state_energy", <<0, 1>>)
              IN /\ b.energy * g[2] - g[1] \in (-(g[2] \div 2))..(g[2] \div 2)
                 /\ b.iterations = Get(file.doc, "iterations", 100)

C9_Witness ==
    /\ pc = "done"
    /\ Len(out) = 13
    /\ iterations = 3
    /\ Has(out, "histogram")
    /\ Has(out, "running_average")
    /\ out[13].block = "conclusion"
    /\ out[12].block = "final"

----------------------------------------------------------------------------
(* C10 *)

ErrorOnly == Len(out) = 1 /\ out[1].block = "error"

FullDashboard ==
    /\ pc = "done"
    /\ Has(out, "title")
    /\ Has(out, "convergence")
    /\ Has(out, "final")
    /\ out[Len(out)].block = "conclusion"

\* C10: a run ends either with a load error and nothing else, or with the
\* whole dashboard rendered to the final summary and closing commentary; a
\* file that parses as an object with keys of the documented types ({},
\* iterations = 0 and an empty energy_convergence included) ends with the
\* whole dashboard.
C10_NoSilentOutcome ==
    RunEnded =>
        /\ ErrorOnly \/ FullDashboard
        /\ file.kind = "json" => FullDashboard

=============================================================================
